---------------------------- MODULE Spec2Model ----------------------------
(* A model of the cause-list parser (src/cause_list_parser.py) and of the  *)
(* query loop of its front end (src/app.py).                                *)
(*                                                                          *)
(* Text is modelled character by character: a Python str is a sequence of   *)
(* one-character strings, so that the regular expressions and the string    *)
(* methods of the source are computed, not assumed.  An optional value      *)
(* (Python's None) is the empty sequence, a present value v is <<v>>.       *)
EXTENDS Integers, Sequences, FiniteSets, TLC

(***************************************************************************)
(* Characters and the str methods the source uses                          *)
(***************************************************************************)

LowerLetters == <<"a","b","c","d","e","f","g","h","i","j","k","l","m",
                  "n","o","p","q","r","s","t","u","v","w","x","y","z">>

UpperLetters == <<"A","B","C","D","E","F","G","H","I","J","K","L","M",
                  "N","O","P","Q","R","S","T","U","V","W","X","Y","Z">>

Digits == <<"0","1","2","3","4","5","6","7","8","9">>

Range(f) == {f[i] : i \in DOMAIN f}

LowerSet == Range(LowerLetters)

UpperSet == Range(UpperLetters)

DigitSet == Range(Digits)

\* \s of the re module, restricted to the characters of the model
Whitespace == {" ", "\t", "\n"}

\* \w of the re module
WordChars == LowerSet \cup UpperSet \cup DigitSet \cup {"_"}

ToUpperMap ==
    ("a" :> "A") @@ ("b" :> "B") @@ ("c" :> "C") @@ ("d" :> "D") @@ ("e" :> "E") @@
    ("f" :> "F") @@ ("g" :> "G") @@ ("h" :> "H") @@ ("i" :> "I") @@ ("j" :> "J") @@
    ("k" :> "K") @@ ("l" :> "L") @@ ("m" :> "M") @@ ("n" :> "N") @@ ("o" :> "O") @@
    ("p" :> "P") @@ ("q" :> "Q") @@ ("r" :> "R") @@ ("s" :> "S") @@ ("t" :> "T") @@
    ("u" :> "U") @@ ("v" :> "V") @@ ("w" :> "W") @@ ("x" :> "X") @@ ("y" :> "Y") @@
    ("z" :> "Z")

ToLowerMap ==
    ("A" :> "a") @@ ("B" :> "b") @@ ("C" :> "c") @@ ("D" :> "d") @@ ("E" :> "e") @@
    ("F" :> "f") @@ ("G" :> "g") @@ ("H" :> "h") @@ ("I" :> "i") @@ ("J" :> "j") @@
    ("K" :> "k") @@ ("L" :> "l") @@ ("M" :> "m") @@ ("N" :> "n") @@ ("O" :> "o") @@
    ("P" :> "p") @@ ("Q" :> "q") @@ ("R" :> "r") @@ ("S" :> "s") @@ ("T" :> "t") @@
    ("U" :> "u") @@ ("V" :> "v") @@ ("W" :> "w") @@ ("X" :> "x") @@ ("Y" :> "y") @@
    ("Z" :> "z")

UpperCh(c) == IF c \in DOMAIN ToUpperMap THEN ToUpperMap[c] ELSE c

LowerCh(c) == IF c \in DOMAIN ToLowerMap THEN ToLowerMap[c] ELSE c

\* str.upper()
RECURSIVE Upper(_)
Upper(w) == IF w = <<>> THEN <<>> ELSE <<UpperCh(Head(w))>> \o Upper(Tail(w))

\* str.lower()
RECURSIVE Lower(_)
Lower(w) == IF w = <<>> THEN <<>> ELSE <<LowerCh(Head(w))>> \o Lower(Tail(w))

\* str.capitalize(): first character upper-cased, the rest lower-cased
Capitalize(w) == IF w = <<>> THEN <<>> ELSE <<UpperCh(Head(w))>> \o Lower(Tail(w))

Min(S) == CHOOSE m \in S : \A n \in S : m <= n

Max(S) == CHOOSE m \in S : \A n \in S : m >= n

\* str.strip(chars): leading and trailing characters of the set removed
StripChars(s, chars) ==
    LET keep == {i \in 1..Len(s) : s[i] \notin chars}
    IN  IF keep = {} THEN <<>> ELSE SubSeq(s, Min(keep), Max(keep))

\* str.strip()
Strip(s) == StripChars(s, Whitespace)

\* length of the longest prefix of s made of characters of the set
RECURSIVE RunLen(_, _)
RunLen(s, chars) ==
    IF s = <<>> \/ Head(s) \notin chars THEN 0 ELSE 1 + RunLen(Tail(s), chars)

\* length of the longest prefix of s made of characters outside the set
RECURSIVE RunLenNot(_, _)
RunLenNot(s, chars) ==
    IF s = <<>> \/ Head(s) \in chars THEN 0 ELSE 1 + RunLenNot(Tail(s), chars)

Drop(s, n) == SubSeq(s, n + 1, Len(s))

\* re.sub(r"\s+", " ", s)
RECURSIVE CollapseSpaces(_)
CollapseSpaces(s) ==
    IF s = <<>> THEN <<>>
    ELSE IF Head(s) \in Whitespace
         THEN <<" ">> \o CollapseSpaces(Drop(s, RunLen(s, Whitespace)))
         ELSE <<Head(s)>> \o CollapseSpaces(Tail(s))

\* str.split(): the maximal runs of non-whitespace characters
RECURSIVE SplitWords(_)
SplitWords(s) ==
    IF s = <<>> THEN <<>>
    ELSE IF Head(s) \in Whitespace THEN SplitWords(Tail(s))
         ELSE LET n == RunLenNot(s, Whitespace)
              IN  <<SubSeq(s, 1, n)>> \o SplitWords(Drop(s, n))

\* " ".join(words)
RECURSIVE JoinSpace(_)
JoinSpace(words) ==
    IF words = <<>> THEN <<>>
    ELSE IF Len(words) = 1 THEN words[1]
         ELSE words[1] \o <<" ">> \o JoinSpace(Tail(words))

\* the sequences over a set, up to a length
RECURSIVE StringsUpTo(_, _)
StringsUpTo(chars, n) ==
    IF n = 0 THEN {<<>>}
    ELSE LET shorter == StringsUpTo(chars, n - 1)
         IN  shorter \cup {Append(s, c) : s \in shorter, c \in chars}

(***************************************************************************)
(* smart_title                                                             *)
(***************************************************************************)

kept == { <<"U",".","P",".">>, <<"N","C","T">>, <<"S","L","P">>,
          <<"S",".","L",".","P",".">>, <<"I","A">>, <<"I",".","A",".">>,
          <<"L","t","d",".">>, <<"L","T","D",".">>, <<"C","B","I">>,
          <<"G","S","T">>, <<"W",".","P",".","(","C",")">>,
          <<"T",".","P",".","(","C",")">>,
          <<"T",".","P",".","(","C","r","l",".",")">> }

lowers == { <<"a","n","d">>, <<"o","f">>, <<"t","h","e">>, <<"b","y">>,
            <<"o","n">>, <<"f","o","r">>, <<"t","o">>, <<"i","n">>,
            <<"v","s">>, <<"v","s",".">>, <<"a","l","i","a","s">>, <<"@">> }

\* the body of the loop over the tokens; i is enumerate's index (from 0)
TitleWord(i, w) ==
    IF \/ \E k \in 1..Len(w) : w[k] \in DigitSet
       \/ ((\E k \in 1..Len(w) : w[k] = ".") /\ Upper(w) = w)
       \/ Upper(w) \in kept
    THEN w
    ELSE LET base == Lower(w)
         IN  IF base \in lowers /\ i # 0 THEN base ELSE Capitalize(base)

smart_title(s) ==
    LET words == SplitWords(CollapseSpaces(Strip(s)))
        out   == [k \in 1..Len(words) |-> TitleWord(k - 1, words[k])]
    IN  StripChars(JoinSpace(out), {" ", ",", ".", "-"})

(***************************************************************************)
(* The regular expressions                                                 *)
(***************************************************************************)

\* s has pat at position i (1-based)
HasAt(s, i, pat) ==
    /\ i >= 1
    /\ i + Len(pat) - 1 <= Len(s)
    /\ \A k \in 1..Len(pat) : s[i + k - 1] = pat[k]

\* s has the lower-case pat at position i, under re.IGNORECASE
HasAtCI(s, i, pat) ==
    /\ i >= 1
    /\ i + Len(pat) - 1 <= Len(s)
    /\ \A k \in 1..Len(pat) : LowerCh(s[i + k - 1]) = pat[k]

\* re.search of a literal
Contains(s, pat) == \E i \in 1..(Len(s) + 1) : HasAt(s, i, pat)

\* re.search of a literal under re.IGNORECASE
ContainsCI(s, pat) == Contains(Lower(s), Lower(pat))

IsWordAt(s, k) == k >= 1 /\ k <= Len(s) /\ s[k] \in WordChars

\* \b between s[k] and s[k+1] (k = 0: the start, k = Len(s): the end)
WordBoundary(s, k) == IsWordAt(s, k) # IsWordAt(s, k + 1)

\* the end of a match of \d{1,3}(?:\.\d+)?\b at the start of s that takes n
\* digits and a sub-item of m digits (m = 0: no sub-item)
SerialEnd(n, m) == IF m = 0 THEN n ELSE n + 1 + m

\* variant: the pattern without the final \b
SerialFitsAnyEnd(s, n, m) ==
    /\ n <= Len(s)
    /\ \A k \in 1..n : s[k] \in DigitSet
    /\ m > 0 => /\ n + 1 + m <= Len(s)
                /\ s[n + 1] = "."
                /\ \A k \in 1..m : s[n + 1 + k] \in DigitSet

SerialFits(s, n, m) ==
    /\ n <= Len(s)
    /\ \A k \in 1..n : s[k] \in DigitSet
    /\ m > 0 => /\ n + 1 + m <= Len(s)
                /\ s[n + 1] = "."
                /\ \A k \in 1..m : s[n + 1 + k] \in DigitSet
    /\ WordBoundary(s, SerialEnd(n, m))

\* SERIAL_RE.match(line): <<>> when there is no match, else <<group 1>>.
\* The quantifiers are greedy: the most digits first, then the longest sub-item.
SERIAL_RE(line) ==
    LET s    == Drop(line, RunLen(line, Whitespace))
        fits == {nm \in (1..3) \X (0..Len(s)) : SerialFits(s, nm[1], nm[2])}
    IN  IF fits = {} THEN <<>>
        ELSE LET n == Max({nm[1] : nm \in fits})
                 m == Max({nm[2] : nm \in {x \in fits : x[1] = n}})
             IN  <<SubSeq(s, 1, SerialEnd(n, m))>>

\* VERSUS_RE.match(line)
VERSUS_RE(line) ==
    LET s == Drop(Lower(line), RunLen(line, Whitespace))
        t == Drop(s, 6)
        u == IF t # <<>> /\ Head(t) = "." THEN Tail(t) ELSE t
    IN  /\ HasAt(s, 1, <<"v","e","r","s","u","s">>)
        /\ RunLen(u, Whitespace) = Len(u)

\* the digits COURT_NUM_RE captures when it matches at position i of s,
\* <<>> when it does not match there
CourtNumAt(s, i) ==
    IF ~HasAtCI(s, i, <<"c","o","u","r","t">>) THEN <<>>
    ELSE LET a == Drop(s, i + 4)
             b == Drop(a, RunLen(a, Whitespace))
         IN  IF ~HasAtCI(b, 1, <<"n","o">>) THEN <<>>
             ELSE LET c == Drop(b, 2)
                      d == IF c # <<>> /\ Head(c) = "." THEN Tail(c) ELSE c
                      e == Drop(d, RunLen(d, Whitespace))
                      f == IF e # <<>> /\ Head(e) \in {":", "-"} THEN Tail(e) ELSE e
                      g == Drop(f, RunLen(f, Whitespace))
                  IN  SubSeq(g, 1, RunLen(g, DigitSet))

\* COURT_NUM_RE.search(txt): <<>> or <<group 1 of the leftmost match>>
COURT_NUM_RE(txt) ==
    LET hits == {i \in 1..Len(txt) : CourtNumAt(txt, i) # <<>>}
    IN  IF hits = {} THEN <<>> ELSE <<CourtNumAt(txt, Min(hits))>>

ChiefJusticeAt(s, i) ==
    /\ HasAtCI(s, i, <<"c","h","i","e","f">>)
    /\ LET a  == Drop(s, i + 4)
           w1 == RunLen(a, Whitespace)
           b  == Drop(a, w1)
           c  == Drop(b, 7)
           d  == IF c # <<>> /\ Head(c) = "'" THEN Tail(c) ELSE c
           e  == Drop(d, 1)
           w2 == RunLen(e, Whitespace)
       IN  /\ w1 >= 1
           /\ HasAtCI(b, 1, <<"j","u","s","t","i","c","e">>)
           /\ HasAtCI(d, 1, <<"s">>)
           /\ w2 >= 1
           /\ HasAtCI(Drop(e, w2), 1, <<"c","o","u","r","t">>)

\* CHIEF_JUSTICE_RE.search(txt)
CHIEF_JUSTICE_RE(txt) == \E i \in 1..Len(txt) : ChiefJusticeAt(txt, i)

DigitValue(c) == (CHOOSE i \in 1..10 : Digits[i] = c) - 1

\* int(digits)
RECURSIVE ParseInt(_)
ParseInt(ds) ==
    IF ds = <<>> THEN 0
    ELSE 10 * ParseInt(SubSeq(ds, 1, Len(ds) - 1)) + DigitValue(ds[Len(ds)])

\* str(n) for n >= 0
RECURSIVE IntToStr(_)
IntToStr(n) ==
    IF n < 10 THEN <<Digits[n + 1]>>
    ELSE IntToStr(n \div 10) \o <<Digits[(n % 10) + 1]>>

\* the alternative SNo\.\s*Case No\. of IGNORE_HEAD, at position i of s
SNoCaseNoAt(s, i) ==
    /\ HasAt(s, i, <<"s","n","o",".">>)
    /\ LET a == Drop(s, i + 3)
       IN  HasAt(Drop(a, RunLen(a, Whitespace)), 1,
                 <<"c","a","s","e"," ","n","o",".">>)

IgnoreHeadPhrases ==
    { <<"S","U","P","R","E","M","E"," ","C","O","U","R","T"," ","O","F"," ","I","N","D","I","A">>,
      <<"I","T"," ","W","I","L","L"," ","B","E"," ","A","P","P","R","E","C","I","A","T","E","D">>,
      <<"L","I","S","T","E","D"," ","B","E","F","O","R","E">>,
      <<"D","A","I","L","Y"," ","C","A","U","S","E"," ","L","I","S","T">>,
      <<"N","O","T","E">>,
      <<"M","I","S","C","E","L","L","A","N","E","O","U","S"," ","H","E","A","R","I","N","G">>,
      <<"P","U","B","L","I","C"," ","I","N","T","E","R","E","S","T"," ","L","I","T","I","G","A","T","I","O","N","S">>,
      <<"P","e","t","i","t","i","o","n","e","r","/","R","e","s","p","o","n","d","e","n","t">> }

\* IGNORE_HEAD.search(line)
IGNORE_HEAD(line) ==
    \/ \E p \in IgnoreHeadPhrases : ContainsCI(line, p)
    \/ LET s == Lower(line) IN \E i \in 1..Len(s) : SNoCaseNoAt(s, i)

MiscPhrases ==
    { <<"I","A"," ","N","o",".">>,
      <<"F","O","R"," ","A","D","M","I","S","S","I","O","N">>,
      <<"E","X","E","M","P","T","I","O","N"," ","F","R","O","M"," ","F","I","L","I","N","G">>,
      <<"C","O","N","D","O","N","A","T","I","O","N"," ","O","F"," ","D","E","L","A","Y">>,
      <<"O",".","T",".">> }

is_meta_line(line) ==
    \/ IGNORE_HEAD(line)
    \/ \E i \in 1..Len(line) :
          HasAt(line, i, <<"N","o",".">>) /\ WordBoundary(line, i - 1)
    \/ LET n == RunLen(line, {"I","V","X","L","C"})
       IN  /\ n >= 1
           /\ \/ Len(line) = n
              \/ Len(line) = n + 2 /\ line[n + 1] = "-" /\ line[n + 2] \in UpperSet
    \/ /\ line # <<>>
       /\ \A k \in 1..Len(line) : line[k] \in DigitSet \cup {"/", "(", ")", ".", "-"}
    \/ \E i \in 1..Len(line) :
          /\ HasAt(line, i, <<"P","I","L">>)
          /\ WordBoundary(line, i - 1)
          /\ HasAt(line, i + 3, <<"-","W">>) \/ WordBoundary(line, i + 2)
    \/ \E p \in MiscPhrases : ContainsCI(line, p)
    \/ line = <<"C","o","n","n","e","c","t","e","d">>

(***************************************************************************)
(* A page as the text-extraction engine gives it                           *)
(*                                                                         *)
(* Coordinates are integers counting hundredths of a unit (12.34 is 1234). *)
(* A block is [x0, y0, x1, y1, text], a word is [x0, y0, x1, y1, word], a  *)
(* page is [blocks, words, width, height]; blocks and words are in the     *)
(* order the engine returns them.                                          *)
(***************************************************************************)

\* "\n".join of the texts
RECURSIVE JoinLines(_)
JoinLines(texts) ==
    IF texts = <<>> THEN <<>>
    ELSE IF Len(texts) = 1 THEN texts[1]
         ELSE texts[1] \o <<"\n">> \o JoinLines(Tail(texts))

\* page.get_text("text"): the text of the blocks, in the engine's order
PageText(page) == JoinLines([k \in 1..Len(page.blocks) |-> page.blocks[k].text])

\* str.splitlines(), for the line break "\n"
RECURSIVE SplitLines(_)
SplitLines(text) ==
    IF text = <<>> THEN <<>>
    ELSE LET n == RunLenNot(text, {"\n"})
         IN  <<SubSeq(text, 1, n)>> \o SplitLines(Drop(text, n + 1))

\* an optional int is truthy when it is present and not 0
TruthyInt(o) == o # <<>> /\ o[1] # 0

\* an optional str is truthy when it is present and not empty
TruthyStr(o) == o # <<>> /\ o[1] # <<>>

\* the scan of the header blocks, which stops at the first block whose
\* bottom edge is below 180
RECURSIVE HeaderScan(_)
HeaderScan(bs) ==
    IF bs = <<>> THEN <<>>
    ELSE IF Head(bs).y1 > 18000 THEN <<>>
    ELSE IF CHIEF_JUSTICE_RE(Head(bs).text) THEN <<1>>
    ELSE LET mm == COURT_NUM_RE(Head(bs).text)
         IN  IF mm # <<>> THEN <<ParseInt(mm[1])>> ELSE HeaderScan(Tail(bs))

\* <<>> for None, <<n>> for the court number n
detect_court_number(page) ==
    LET txt == PageText(page)
        m   == COURT_NUM_RE(txt)
    IN  IF CHIEF_JUSTICE_RE(txt) THEN <<1>>
        ELSE IF m # <<>> THEN <<ParseInt(m[1])>>
        ELSE HeaderScan(page.blocks)

StartsWith(s, pat) == HasAt(s, 1, pat)

\* variant: the band is not tested
InAnyBand(w, h) == TRUE

\* w[1] < h*0.35
InUpperBand(w, h) == 100 * w.y0 < 35 * h

\* the split coordinate, times 100 (so that width * 0.70 stays an integer)
page_split_x(page) ==
    LET h   == page.height
        adv == {k \in 1..Len(page.words) :
                   /\ StartsWith(Lower(page.words[k].word),
                                 <<"a","d","v","o","c","a","t","e">>)
                   /\ InUpperBand(page.words[k], h)}
        pr  == {k \in 1..Len(page.words) :
                   /\ Contains(Lower(page.words[k].word),
                               <<"p","e","t","i","t","i","o","n","e","r","/",
                                 "r","e","s","p","o","n","d","e","n","t">>)
                   /\ InUpperBand(page.words[k], h)}
    IN  IF adv # {} THEN 100 * Min({page.words[k].x0 : k \in adv})
        ELSE IF pr # {} THEN 100 * (Max({page.words[k].x1 : k \in pr}) + 1000)
        ELSE page.width * 70

\* round(v, 1): to the nearest tenth, a tie to the even tenth
Round1(v) ==
    LET lo == (v \div 10) * 10
        r  == v % 10
    IN  IF r < 5 THEN lo
        ELSE IF r > 5 THEN lo + 10
        ELSE IF (lo \div 10) % 2 = 0 THEN lo ELSE lo + 10

\* the sort key of line 91, compared as Python compares tuples
SortKeyLE(a, b) ==
    \/ Round1(a.y0) < Round1(b.y0)
    \/ Round1(a.y0) = Round1(b.y0) /\ Round1(a.x0) <= Round1(b.x0)

\* b put into the sorted list after every block whose key is not greater
RECURSIVE InsertBlock(_, _)
InsertBlock(sorted, b) ==
    IF sorted = <<>> THEN <<b>>
    ELSE IF SortKeyLE(Head(sorted), b)
         THEN <<Head(sorted)>> \o InsertBlock(Tail(sorted), b)
         ELSE <<b>> \o sorted

\* list.sort(key=...): a stable sort
RECURSIVE SortBlocks(_)
SortBlocks(bs) ==
    IF bs = <<>> THEN <<>>
    ELSE InsertBlock(SortBlocks(SubSeq(bs, 1, Len(bs) - 1)), bs[Len(bs)])

(***************************************************************************)
(* The documents the model parses                                          *)
(*                                                                         *)
(* A layout is a page written down in reading order: a sequence of         *)
(* [left, text], one per block.  PageOf places the blocks on the page; a   *)
(* right-column block that follows a left-column block shares its row and  *)
(* sits 0.04 higher, the sub-pixel jitter the rounding of line 91 absorbs. *)
(***************************************************************************)

L(text) == [left |-> TRUE, text |-> text]

R(text) == [left |-> FALSE, text |-> text]

\* a block on a row of its own whose left edge is at x
X(x, text) == [left |-> TRUE, x0 |-> x, text |-> text]

RECURSIVE BlockY(_, _)
BlockY(layout, k) ==
    IF k = 1 THEN 12000
    ELSE IF ~layout[k].left /\ layout[k - 1].left THEN BlockY(layout, k - 1) - 4
    ELSE Round1(BlockY(layout, k - 1)) + 2000

BlockOf(layout, k) ==
    LET x == IF "x0" \in DOMAIN layout[k] THEN layout[k].x0
             ELSE IF layout[k].left THEN 5000 ELSE 45000
        y == BlockY(layout, k)
    IN  [x0 |-> x, y0 |-> y, x1 |-> x + 3000, y1 |-> y + 1500,
         text |-> layout[k].text]

Reverse(s) == [k \in 1..Len(s) |-> s[Len(s) + 1 - k]]

\* the column header "Advocate", in the upper band of the page
AdvocateHeader ==
    <<[x0 |-> 43000, y0 |-> 9000, x1 |-> 47000, y1 |-> 10000,
       word |-> <<"A","d","v","o","c","a","t","e">>]>>

T_Advocate == <<"A","d","v","o","c","a","t","e">>

T_ADVOCATES == <<"A","D","V","O","C","A","T","E","S">>

T_PetResp ==
    <<"P","e","t","i","t","i","o","n","e","r","/","R","e","s","p","o","n","d","e","n","t">>

\* a word of one line of text whose top left corner is at (x, y)
Word(x, y, len, text) ==
    [x0 |-> x, y0 |-> y, x1 |-> x + len, y1 |-> y + 1000, word |-> text]

\* The words of the pages of the path "columns" (the page is 842 high: the
\* upper band ends at 294.7):
\*   1: no word;
\*   2: "Advocate" at x 430 in the band;
\*   3: "Advocate" at x 430 and "ADVOCATES" at x 300 in the band, "Advocate"
\*      at x 100 below the band, "Petitioner/Respondent" in the band;
\*   4: "Advocate" at y 294.7, the first y below the band, and nothing else;
\*   5: "Advocate" below the band, "Petitioner/Respondent" ending at x 200
\*      in the band;
\*   6: "Petitioner/Respondent" ending at x 200 and at x 250 in the band and
\*      at x 500 below the band.
ColumnHeaders ==
    << <<>>,
       AdvocateHeader,
       << Word(43000, 9000, 4000, T_Advocate), Word(30000, 29469, 4500, T_ADVOCATES),
          Word(10000, 40000, 4000, T_Advocate), Word(10000, 9000, 10000, T_PetResp) >>,
       << Word(10000, 29470, 4000, T_Advocate) >>,
       << Word(10000, 40000, 4000, T_Advocate), Word(10000, 9000, 10000, T_PetResp) >>,
       << Word(10000, 9000, 10000, T_PetResp), Word(15000, 9000, 10000, T_PetResp),
          Word(40000, 40000, 10000, T_PetResp) >> >>

\* the page of a layout; reversed: the engine returns the blocks bottom-up
PageOf(layout, words, reversed) ==
    LET bs == [k \in 1..Len(layout) |-> BlockOf(layout, k)]
    IN  [blocks |-> IF reversed THEN Reverse(bs) ELSE bs,
         words  |-> words, width |-> 59500, height |-> 84200]

T_5 == <<"5">>

T_6 == <<"6">>

T_versus == <<"v","e","r","s","u","s">>

T_Ram == <<"R","a","m">>

T_comma == <<",">>

T_12No == <<"1","2"," ","N","o","."," ","s","o","m","e","t","h","i","n","g">>

T_Court2 == <<"C","O","U","R","T"," ","N","O","."," ","2">>

T_Court2_5 == <<"C","O","U","R","T"," ","N","O","."," ","2","\n","5">>

T_Court3 == <<"C","O","U","R","T"," ","N","O","."," ","3">>

T_Court0 == <<"C","O","U","R","T"," ","N","O","."," ","0">>

T_blank == <<" ">>

T_Note == <<"N","O","T","E">>

T_Chief ==
    <<"C","h","i","e","f"," ","J","u","s","t","i","c","e","'","s"," ","C","o","u","r","t">>

T_5PetitionerOne == <<"5"," "," ","P","e","t","i","t","i","o","n","e","r"," ","O","n","e">>

T_6PetitionerTwo == <<"6"," ","P","e","t","i","t","i","o","n","e","r"," ","T","w","o">>

T_PetitionerOne == <<"P","e","t","i","t","i","o","n","e","r"," ","O","n","e">>

T_PetitionerTwo == <<"P","e","t","i","t","i","o","n","e","r"," ","T","w","o">>

T_RespondentOne == <<"R","e","s","p","o","n","d","e","n","t"," ","O","n","e">>

T_RespondentTwo == <<"R","e","s","p","o","n","d","e","n","t"," ","T","w","o">>

\* The documents with fixed contents, by path.
\*   e2e_same_line: page 1 declares court 2 and lists "5  Petitioner One",
\*     "versus", "Respondent One" (one block of three lines); page 2 has no
\*     court marker and lists "6 Petitioner Two", "versus", "Respondent Two".
\*   e2e_own_line: the same with each serial on a line of its own.
\*   e2e_abandoned: one page declares court 2 and lists "5", "Petitioner
\*     One", "6", "Petitioner Two", "versus", "Respondent Two".
\*   late_court: page 1 has no court marker and lists "5", "Petitioner One",
\*     "versus", "Respondent One"; page 2 declares court 2 and lists "6",
\*     "Petitioner Two", "versus", "Respondent Two".
\*   other_lines: one page declares court 2 and lists "5", "Petitioner One",
\*     "versus" in the left column, then "6 Petitioner Two", a blank line,
\*     "Ram", "12 No. something" in the right column, then "NOTE", a blank
\*     line, "Respondent One" in the left column.
\*   first_lines: one page declares court 2 and lists "5", ",", "Petitioner
\*     One", "versus", "Respondent One", "Respondent Two".
Fixtures ==
    [ e2e_same_line |->
        << PageOf(<< L(T_Court2),
                     L(JoinLines(<<T_5PetitionerOne, T_versus, T_RespondentOne>>)) >>,
                  AdvocateHeader, FALSE),
           PageOf(<< L(T_6PetitionerTwo), L(T_versus), L(T_RespondentTwo) >>,
                  <<>>, TRUE) >>,
      e2e_own_line |->
        << PageOf(<< L(T_Court2),
                     L(JoinLines(<<T_5, T_PetitionerOne, T_versus, T_RespondentOne>>)) >>,
                  AdvocateHeader, FALSE),
           PageOf(<< L(T_6), L(T_PetitionerTwo), L(T_versus), L(T_RespondentTwo) >>,
                  <<>>, TRUE) >>,
      e2e_abandoned |->
        << PageOf(<< L(T_Court2),
                     L(JoinLines(<<T_5, T_PetitionerOne, T_6, T_PetitionerTwo,
                                   T_versus, T_RespondentTwo>>)) >>,
                  AdvocateHeader, FALSE) >>,
      first_lines |->
        << PageOf(<< L(T_Court2),
                     L(JoinLines(<<T_5, T_comma, T_PetitionerOne, T_versus,
                                   T_RespondentOne, T_RespondentTwo>>)) >>,
                  AdvocateHeader, FALSE) >>,
      late_court |->
        << PageOf(<< L(JoinLines(<<T_5, T_PetitionerOne, T_versus, T_RespondentOne>>)) >>,
                  AdvocateHeader, FALSE),
           PageOf(<< L(T_Court2),
                     L(JoinLines(<<T_6, T_PetitionerTwo, T_versus, T_RespondentTwo>>)) >>,
                  AdvocateHeader, FALSE) >>,
      other_lines |->
        << PageOf(<< L(T_Court2),
                     L(JoinLines(<<T_5, T_PetitionerOne, T_versus>>)),
                     R(JoinLines(<<T_6PetitionerTwo, T_blank, T_Ram, T_12No>>)),
                     L(JoinLines(<<T_Note, T_blank, T_RespondentOne>>)) >>,
                  AdvocateHeader, FALSE) >> ]

FixturePaths == DOMAIN Fixtures

\* The documents with free contents: every page is any layout over the
\* lexicon of the path.
Lexicon ==
    [ parties |-> <<L(T_5), L(T_Ram), L(T_versus), L(T_comma), L(T_Court2_5), R(T_versus)>>,
      markers |-> <<L(T_5), L(T_Ram), L(T_versus), L(T_12No), R(T_12No)>>,
      courts  |-> <<L(T_5), L(T_Court2), L(T_Court3), L(T_Court0)>>,
      chief   |-> <<L(T_5), L(T_Chief), L(T_Court3), L(T_Court0)>>,
      columns |-> <<X(5000, T_5), X(20999, T_5), X(21000, T_5), X(26000, T_5),
                    X(29999, T_5), X(30000, T_5), X(41649, T_5), X(41650, T_5),
                    X(42999, T_5), X(43000, T_5)>> ]

\* the words the pages of a path may have
Headers ==
    [ parties |-> <<AdvocateHeader>>, markers |-> <<AdvocateHeader>>,
      courts  |-> <<AdvocateHeader>>, chief   |-> <<AdvocateHeader>>,
      columns |-> ColumnHeaders ]

\* the most blocks of a page of the path "columns"
MaxColumnBlocks == 1

\* the most pages of a document with free contents
MaxPages == 2

\* the most blocks of a document with free contents, all pages together
MaxLines == 4

RECURSIVE Pow(_, _)
Pow(b, n) == IF n = 0 THEN 1 ELSE b * Pow(b, n - 1)

\* the layouts of n blocks over a lexicon, numbered from 0: block j of
\* layout k is the lexicon entry of digit j of k
Layout(lex, n, k) ==
    [j \in 1..n |-> lex[((k \div Pow(Len(lex), j - 1)) % Len(lex)) + 1]]

\* The pages with free contents, by path and number of blocks, numbered
\* from 0: with c layouts of n blocks, page k has layout (k \div 2) % c and
\* the words (k \div 2) \div c of the path, and its blocks come bottom-up
\* when k is odd.
FreePage(path, n, k) ==
    LET c == Pow(Len(Lexicon[path]), n)
    IN  PageOf(Layout(Lexicon[path], n, (k \div 2) % c),
               Headers[path][((k \div 2) \div c) + 1], k % 2 = 1)

\* the numbers of blocks of the page doc.load_page(pno) may return, used
\* blocks having been loaded
PageSizes(path, pno, used) ==
    IF path \in FixturePaths THEN {Len(Fixtures[path][pno + 1].blocks)}
    ELSE IF path = "columns" THEN 0..Min({MaxColumnBlocks, MaxLines - used})
    ELSE 0..(MaxLines - used)

\* the numbers of the pages of n blocks doc.load_page(pno) may return; the
\* pages of the paths "chief" and "columns" all have their blocks top-down
PageIds(path, pno, n) ==
    IF path \in FixturePaths THEN {0}
    ELSE IF path \in {"chief", "columns"}
         THEN {2 * j : j \in 0..(Pow(Len(Lexicon[path]), n) * Len(Headers[path]) - 1)}
    ELSE 0..(2 * Pow(Len(Lexicon[path]), n) * Len(Headers[path]) - 1)

\* page k of the pages of n blocks doc.load_page(pno) may return
PageAt(path, pno, n, k) ==
    IF path \in FixturePaths THEN Fixtures[path][pno + 1]
    ELSE FreePage(path, n, k)

PageCounts(path) ==
    IF path \in FixturePaths THEN {Len(Fixtures[path])} ELSE 0..MaxPages

\* the texts of the blocks of the documents, and their lines after
\* raw.strip()
BlockTexts ==
    {e.text : e \in UNION {Range(Lexicon[path]) : path \in DOMAIN Lexicon}}
        \cup {b.text : b \in UNION {Range(fixed.blocks) :
                 fixed \in UNION {Range(Fixtures[path]) : path \in FixturePaths}}}

\* the longest line of the documents of serial markers
MaxSerialLen == 5

SerialChars == {"1", ".", "a", " "}

\* the lines of the documents of serial markers
SerialTexts == StringsUpTo(SerialChars, MaxSerialLen)

Lines ==
    {Strip(raw) : raw \in SerialTexts \cup
                      UNION {Range(SplitLines(text)) : text \in BlockTexts}}

\* the patterns and the normaliser on the lines of the documents, each
\* evaluated once
SerialOf == [line \in Lines |-> SERIAL_RE(line)]

MetaOf == [line \in Lines |-> is_meta_line(line)]

VersusOf == [line \in Lines |-> VERSUS_RE(line)]

TitleOf == [line \in Lines |-> smart_title(line)]

(***************************************************************************)
(* parse_pdf                                                               *)
(***************************************************************************)

VARIABLES
    pdf_path,       \* the argument of parse_pdf
    page_count,     \* doc.page_count
    nlines,         \* the blocks loaded so far (bounds the free documents)
    detections,     \* history: the result of detect_court_number, per page
    pc,             \* "parse", "raised", "parsed", "indexed", "done", "exit1"
    pno,            \* the pages loaded so far; the current page is page pno
    last_court,     \* <<>> for None
    court,          \* <<>> for None
    page,           \* <<>> before the first page, then <<[words, width, height]>>
    split_x,        \* times 100
    blocks,         \* the blocks of the page still to come, sorted
    is_left,
    lines,          \* the lines of the block still to come
    current,        \* the index in items of the open entry, 0 for None
    capture_resp,
    items,
    events,         \* history: per entry, what happened to it, in order
    result,         \* <<>> before parse_pdf returns, then <<the list>>
    dump_all,       \* args.dump_all
    req,            \* the references still to answer
    idx,            \* the index, a sequence of [key, it] in insertion order
    out,            \* the lines printed
    title_in, title_once, title_twice, title_pass

parse_vars == <<pdf_path, page_count, nlines, detections, pc, pno, last_court,
                court, page, split_x, blocks, is_left, lines, current,
                capture_resp, items, events, result>>

parse_vars_but_pc == <<pdf_path, page_count, nlines, detections, pno, last_court,
                       court, page, split_x, blocks, is_left, lines, current,
                       capture_resp, items, events, result>>

main_vars == <<dump_all, req, idx, out>>

title_vars == <<title_in, title_once, title_twice, title_pass>>

vars == <<parse_vars, main_vars, title_vars>>

\* variant: the court of a page without a marker is not inherited
ResolveCourtOwnPage(detected, last) == detected

\* court = detect_court_number(page) or last_court
ResolveCourt(detected, last) == IF TruthyInt(detected) THEN detected ELSE last

\* if court: last_court = court
CarryCourt(c, last) == IF TruthyInt(c) THEN c ELSE last

\* variant: the page is recorded as pno, counted from 0
NewEntryFromZero(c, serial, number) ==
    [court |-> c, serial |-> serial, petitioner |-> <<>>, respondent |-> <<>>,
     page |-> number - 1]

NewEntry(c, serial, number) ==
    [court |-> c, serial |-> serial, petitioner |-> <<>>, respondent |-> <<>>,
     page |-> number]

\* variant: the serial pattern is tried in either column
StartsEntryAnyColumn(line, left) == SerialOf[line] # <<>>

\* lines 103 to 105: in the left column, SERIAL_RE matches the line
StartsEntry(line, left) == left /\ SerialOf[line] # <<>>

\* variant: the column is not tested
FillsSlotAnyColumn(left, cur) == cur # 0

\* line 119: if is_left and current (an entry is a dict with five keys,
\* which is truthy)
FillsSlot(left, cur) == left /\ cur # 0

\* variant: an empty name counts as no name
UnsetOrEmpty(o) == ~TruthyStr(o)

\* lines 120 and 123: the slot is None
Unset(o) == o = <<>>

\* variant: the flag stays set after the respondent is captured
LineEffectKeepsFlag(line, left, c, number, its, cur, cap) ==
    LET same == [items |-> its, current |-> cur, capture_resp |-> cap]
    IN  IF line = <<>> THEN same
        ELSE IF StartsEntry(line, left)
        THEN [items |-> Append(its, NewEntry(c, SerialOf[line][1], number)),
              current |-> Len(its) + 1, capture_resp |-> FALSE]
        ELSE IF MetaOf[line] THEN same
        ELSE IF VersusOf[line]
        THEN [items |-> its, current |-> cur, capture_resp |-> TRUE]
        ELSE IF FillsSlot(left, cur)
        THEN IF Unset(its[cur].petitioner) /\ ~cap
             THEN [items |-> [its EXCEPT ![cur].petitioner = <<TitleOf[line]>>],
                   current |-> cur, capture_resp |-> cap]
             ELSE IF cap /\ Unset(its[cur].respondent)
             THEN [items |-> [its EXCEPT ![cur].respondent = <<TitleOf[line]>>],
                   current |-> cur, capture_resp |-> cap]
             ELSE same
        ELSE same

\* The body of the loop over the lines of a block, from line 101 on, as the
\* new values of [items, current, capture_resp]; line is the stripped line.
LineEffect(line, left, c, number, its, cur, cap) ==
    LET same == [items |-> its, current |-> cur, capture_resp |-> cap]
    IN  IF line = <<>> THEN same
        ELSE IF StartsEntry(line, left)
        THEN [items |-> Append(its, NewEntry(c, SerialOf[line][1], number)),
              current |-> Len(its) + 1, capture_resp |-> FALSE]
        ELSE IF MetaOf[line] THEN same
        ELSE IF VersusOf[line]
        THEN [items |-> its, current |-> cur, capture_resp |-> TRUE]
        ELSE IF FillsSlot(left, cur)
        THEN IF Unset(its[cur].petitioner) /\ ~cap
             THEN [items |-> [its EXCEPT ![cur].petitioner = <<TitleOf[line]>>],
                   current |-> cur, capture_resp |-> cap]
             ELSE IF cap /\ Unset(its[cur].respondent)
             THEN [items |-> [its EXCEPT ![cur].respondent = <<TitleOf[line]>>],
                   current |-> cur, capture_resp |-> FALSE]
             ELSE same
        ELSE same

\* history: the entry started gets an empty record; the open entry gets
\* "versus" when a versus marker sets the flag for it, and "petitioner" or
\* "respondent" when the line fills that slot.  e is the effect of the line.
Recorded(evs, its, cur, cap, e) ==
    IF Len(e.items) > Len(its) THEN Append(evs, <<>>)
    ELSE IF cur = 0 THEN evs
    ELSE IF e.items[cur].petitioner # its[cur].petitioner
         THEN [evs EXCEPT ![cur] = Append(@, "petitioner")]
    ELSE IF e.items[cur].respondent # its[cur].respondent
         THEN [evs EXCEPT ![cur] = Append(@, "respondent")]
    ELSE IF ~cap /\ e.capture_resp
         THEN [evs EXCEPT ![cur] = Append(@, "versus")]
    ELSE evs

\* lines 99 to 126: line = raw.strip(), then the body above
ProcessLineEffect(raw, left, c, number, its, cur, cap) ==
    LineEffect(Strip(raw), left, c, number, its, cur, cap)

\* variant: the court is not tested
CompleteNames(it) == TruthyStr(it.petitioner) /\ TruthyStr(it.respondent)

\* the condition of the list comprehension of line 128
Complete(it) ==
    TruthyInt(it.court) /\ TruthyStr(it.petitioner) /\ TruthyStr(it.respondent)

\* variant: the entries after the first incomplete one are lost
RECURSIVE FilterUntilIncomplete(_)
FilterUntilIncomplete(its) ==
    IF its = <<>> THEN <<>>
    ELSE IF Complete(Head(its)) THEN <<Head(its)>> \o FilterUntilIncomplete(Tail(its))
         ELSE <<>>

\* variant: an entry without a court takes the court of the entry after it
RECURSIVE FilterBackfilled(_)
FilterBackfilled(its) ==
    IF its = <<>> THEN <<>>
    ELSE LET rest == FilterBackfilled(Tail(its))
             it   == IF Head(its).court = <<>> /\ rest # <<>>
                     THEN [Head(its) EXCEPT !.court = rest[1].court]
                     ELSE Head(its)
         IN  IF Complete(it) THEN <<it>> \o rest ELSE rest

\* line 128: the complete entries of its, in order
RECURSIVE Filter(_)
Filter(its) ==
    IF its = <<>> THEN <<>>
    ELSE IF Complete(Head(its)) THEN <<Head(its)>> \o Filter(Tail(its))
         ELSE Filter(Tail(its))

AtLoopHead == pc = "parse" /\ lines = <<>> /\ blocks = <<>>

\* variant: current and capture_resp are set before the loop over the pages
LoadPageKeepsEntry ==
    /\ AtLoopHead
    /\ pno < page_count
    /\ \E n \in PageSizes(pdf_path, pno, nlines) :
       \E k \in PageIds(pdf_path, pno, n) :
       \E loaded \in {PageAt(pdf_path, pno, n, k)} :
       \E detected \in {detect_court_number(loaded)} :
          /\ court' = ResolveCourt(detected, last_court)
          /\ last_court' = CarryCourt(ResolveCourt(detected, last_court), last_court)
          /\ page' = <<[words |-> loaded.words, width |-> loaded.width,
                        height |-> loaded.height]>>
          /\ split_x' = page_split_x(loaded)
          /\ blocks' = SortBlocks(loaded.blocks)
          /\ nlines' = nlines + n
          /\ detections' = Append(detections, detected)
    /\ pno' = pno + 1
    /\ UNCHANGED <<pdf_path, page_count, pc, is_left, lines, items, events, result,
                   current, capture_resp>>
    /\ UNCHANGED <<main_vars, title_vars>>

\* lines 85 to 94: the next page is loaded, its court and split resolved,
\* its blocks sorted, and the entry state machine reset
LoadPage ==
    /\ AtLoopHead
    /\ pno < page_count
    /\ \E n \in PageSizes(pdf_path, pno, nlines) :
       \E k \in PageIds(pdf_path, pno, n) :
       \E loaded \in {PageAt(pdf_path, pno, n, k)} :
       \E detected \in {detect_court_number(loaded)} :
          /\ court' = ResolveCourt(detected, last_court)
          /\ last_court' = CarryCourt(ResolveCourt(detected, last_court), last_court)
          /\ page' = <<[words |-> loaded.words, width |-> loaded.width,
                        height |-> loaded.height]>>
          /\ split_x' = page_split_x(loaded)
          /\ blocks' = SortBlocks(loaded.blocks)
          /\ nlines' = nlines + n
          /\ detections' = Append(detections, detected)
    /\ pno' = pno + 1
    /\ current' = 0
    /\ capture_resp' = FALSE
    /\ UNCHANGED <<pdf_path, page_count, pc, is_left, lines, items, events, result>>
    /\ UNCHANGED <<main_vars, title_vars>>

\* doc.load_page(pno) raises: nothing catches it, parse_pdf returns nothing
PageFails ==
    /\ AtLoopHead
    /\ pno < page_count
    /\ pc' = "raised"
    /\ UNCHANGED <<pdf_path, page_count, nlines, detections, pno, last_court,
                   court, page, split_x, blocks, is_left, lines, current,
                   capture_resp, items, events, result>>
    /\ UNCHANGED <<main_vars, title_vars>>

\* lines 96 to 98: the next block of the page
NextBlock ==
    /\ pc = "parse"
    /\ lines = <<>>
    /\ blocks # <<>>
    /\ is_left' = (100 * Head(blocks).x0 < split_x)
    /\ lines' = SplitLines(Head(blocks).text)
    /\ blocks' = Tail(blocks)
    /\ UNCHANGED <<pdf_path, page_count, nlines, detections, pc, pno, last_court,
                   court, page, split_x, current, capture_resp, items, events,
                   result>>
    /\ UNCHANGED <<main_vars, title_vars>>

\* lines 99 to 126: one line of the block
ProcessLine ==
    /\ pc = "parse"
    /\ lines # <<>>
    /\ \E e \in {ProcessLineEffect(Head(lines), is_left, court, pno, items,
                                   current, capture_resp)} :
           /\ items' = e.items
           /\ current' = e.current
           /\ capture_resp' = e.capture_resp
           /\ events' = Recorded(events, items, current, capture_resp, e)
    /\ lines' = Tail(lines)
    /\ UNCHANGED <<pdf_path, page_count, nlines, detections, pc, pno, last_court,
                   court, page, split_x, blocks, is_left, result>>
    /\ UNCHANGED <<main_vars, title_vars>>

\* line 128: after the last page the complete entries are returned.  The
\* locals of parse_pdf are gone; items stays as the record of the entries
\* ever started.
Return ==
    /\ AtLoopHead
    /\ pno = page_count
    /\ result' = <<Filter(items)>>
    /\ pc' = "parsed"
    /\ detections' = <<>>
    /\ last_court' = <<>>
    /\ court' = <<>>
    /\ page' = <<>>
    /\ split_x' = 0
    /\ is_left' = FALSE
    /\ current' = 0
    /\ capture_resp' = FALSE
    /\ UNCHANGED <<pdf_path, page_count, nlines, pno, blocks, lines, items, events>>
    /\ UNCHANGED <<main_vars, title_vars>>

(***************************************************************************)
(* build_index, format_line and main                                       *)
(*                                                                         *)
(* The index is a dict: a sequence of [key, it] with distinct keys, in     *)
(* insertion order, which is the order idx.keys() gives.                   *)
(***************************************************************************)

T_None == <<"N","o","n","e">>

T_NotFound == <<" ","-"," ","N","O","T"," ","F","O","U","N","D">>

T_Usage ==
    <<"P","r","o","v","i","d","e"," ","-","-","r","e","f","s"," ","o","r"," ",
      "-","-","r","e","f","s","-","f","i","l","e"," ","o","r"," ","u","s","e"," ",
      "-","-","d","u","m","p","-","a","l","l">>

\* an optional int, and an optional str, inside an f-string
FmtInt(o) == IF o = <<>> THEN T_None ELSE IntToStr(o[1])

FmtStr(o) == IF o = <<>> THEN T_None ELSE o[1]

\* f"{it['court']}/{it['serial']}"
Key(it) == FmtInt(it.court) \o <<"/">> \o it.serial

\* key in idx
HasKey(ix, key) == \E i \in 1..Len(ix) : ix[i].key = key

\* variant: a later entry replaces the earlier one under its key
RECURSIVE IndexLastWins(_, _)
IndexLastWins(ix, its) ==
    IF its = <<>> THEN ix
    ELSE LET it == Head(its)
         IN  IndexLastWins(
                 IF HasKey(ix, Key(it))
                 THEN [i \in 1..Len(ix) |->
                          IF ix[i].key = Key(it) THEN [key |-> Key(it), it |-> it]
                          ELSE ix[i]]
                 ELSE Append(ix, [key |-> Key(it), it |-> it]),
                 Tail(its))

\* lines 132 to 135: the loop of build_index, from the index ix on
RECURSIVE IndexFrom(_, _)
IndexFrom(ix, its) ==
    IF its = <<>> THEN ix
    ELSE LET it == Head(its)
         IN  IndexFrom(IF HasKey(ix, Key(it)) THEN ix
                       ELSE Append(ix, [key |-> Key(it), it |-> it]),
                       Tail(its))

build_index_last_wins(its) == IndexLastWins(<<>>, its)

build_index(its) == IndexFrom(<<>>, its)

format_line(it) ==
    FmtInt(it.court) \o <<"/">> \o it.serial \o <<" ","-"," ">>
        \o FmtStr(it.petitioner) \o <<" ","V","s"," ">> \o FmtStr(it.respondent)

\* variant: the reference is matched on its court alone
idx_get_court(ix, r) ==
    LET n    == RunLenNot(r, {"/"})
        hits == {i \in 1..Len(ix) :
                    SubSeq(ix[i].key, 1, RunLenNot(ix[i].key, {"/"})) = SubSeq(r, 1, n)}
    IN  IF hits = {} THEN <<>> ELSE <<ix[Min(hits)].it>>

\* idx.get(r): <<>> for None
idx_get(ix, r) ==
    LET hits == {i \in 1..Len(ix) : ix[i].key = r}
    IN  IF hits = {} THEN <<>> ELSE <<ix[Min(hits)].it>>

\* format_line(it) if it else f"{r} - NOT FOUND"; an entry is a dict with
\* five keys, which is truthy
Answer(ix, r) ==
    IF idx_get(ix, r) # <<>> THEN format_line(idx_get(ix, r)[1])
    ELSE r \o T_NotFound

Pow10(n) == Pow(10, n)

\* float(s) of digits with an optional fraction, as num / 10^scale
Float(s) ==
    LET n == RunLenNot(s, {"."})
    IN  IF n = Len(s) THEN [num |-> ParseInt(s), scale |-> 0]
        ELSE [num   |-> ParseInt(SubSeq(s, 1, n) \o Drop(s, n + 1)),
              scale |-> Len(s) - n - 1]

FloatLess(a, b) == a.num * Pow10(b.scale) < b.num * Pow10(a.scale)

\* key_fn(k): c, s = k.split("/"); (int(c), float(s))
key_fn(k) ==
    LET n == RunLenNot(k, {"/"})
    IN  [c |-> ParseInt(SubSeq(k, 1, n)), s |-> Float(Drop(k, n + 1))]

\* variant: the keys are ordered by court alone
KeyLessCourt(a, b) == a.c < b.c

\* the order of the tuples (int, float)
KeyLess(a, b) == a.c < b.c \/ (a.c = b.c /\ FloatLess(a.s, b.s))

\* k put into the sorted keys ks, after the keys that are not greater
RECURSIVE InsertKey(_, _)
InsertKey(ks, k) ==
    IF ks = <<>> THEN <<k>>
    ELSE IF KeyLess(key_fn(k), key_fn(Head(ks))) THEN <<k>> \o ks
         ELSE <<Head(ks)>> \o InsertKey(Tail(ks), k)

\* sorted(keys, key=key_fn): a stable sort
RECURSIVE Sorted(_)
Sorted(keys) ==
    IF keys = <<>> THEN <<>>
    ELSE InsertKey(Sorted(SubSeq(keys, 1, Len(keys) - 1)), keys[Len(keys)])

idx_keys(ix) == [i \in 1..Len(ix) |-> ix[i].key]

\* line 150: idx = build_index(items)
BuildIndex ==
    /\ pc = "parsed"
    /\ idx' = build_index(result[1])
    /\ pc' = "indexed"
    /\ UNCHANGED <<pdf_path, page_count, nlines, detections, pno, last_court,
                   court, page, split_x, blocks, is_left, lines, current,
                   capture_resp, items, events, result>>
    /\ UNCHANGED <<dump_all, req, out, title_vars>>

\* lines 152 to 156: every entry of the index is printed, in the order of key_fn
DumpAll ==
    /\ pc = "indexed"
    /\ dump_all
    /\ out' = [i \in 1..Len(idx) |->
                  format_line(idx_get(idx, Sorted(idx_keys(idx))[i])[1])]
    /\ pc' = "done"
    /\ UNCHANGED <<parse_vars_but_pc, dump_all, req, idx, title_vars>>

\* lines 164 to 166: no reference is given
Usage ==
    /\ pc = "indexed"
    /\ ~dump_all
    /\ req = <<>>
    /\ out' = <<T_Usage>>
    /\ pc' = "exit1"
    /\ UNCHANGED <<parse_vars_but_pc, dump_all, req, idx, title_vars>>

\* lines 168 to 170, and lines 19 to 21 of app.py: the next reference is
\* answered
AnswerQuery ==
    /\ pc \in {"indexed", "lookup"}
    /\ ~dump_all
    /\ Len(out) < Len(req)
    /\ out' = Append(out, Answer(idx, req[Len(out) + 1]))
    /\ pc' = IF Len(out) + 1 = Len(req) THEN "done" ELSE "lookup"
    /\ UNCHANGED <<parse_vars_but_pc, dump_all, req, idx, title_vars>>

TitleIdle ==
    /\ title_in = <<>>
    /\ title_once = <<>>
    /\ title_twice = <<>>
    /\ title_pass = 0

MainIdle ==
    /\ dump_all = FALSE
    /\ req = <<>>
    /\ idx = <<>>
    /\ out = <<>>

\* lines 81 and 82: the document is open, nothing is parsed yet
ParseInit(paths) ==
    /\ pdf_path \in paths
    /\ page_count \in PageCounts(pdf_path)
    /\ nlines = 0
    /\ detections = <<>>
    /\ pc = "parse"
    /\ pno = 0
    /\ last_court = <<>>
    /\ court = <<>>
    /\ page = <<>>
    /\ split_x = 0
    /\ blocks = <<>>
    /\ is_left = FALSE
    /\ lines = <<>>
    /\ current = 0
    /\ capture_resp = FALSE
    /\ items = <<>>
    /\ events = <<>>
    /\ result = <<>>

Init == ParseInit({"parties", "markers"} \cup FixturePaths) /\ MainIdle /\ TitleIdle

Next == LoadPage \/ PageFails \/ NextBlock \/ ProcessLine \/ Return \/ BuildIndex

\* parse_pdf, then build_index, over the documents of the model
Spec == Init /\ [][Next]_vars

CourtInit == ParseInit({"courts"}) /\ MainIdle /\ TitleIdle

\* the same over the documents of court markers and serial markers
SpecCourt == CourtInit /\ [][Next]_vars

ColumnsInit == ParseInit({"columns"}) /\ MainIdle /\ TitleIdle

\* the same over the documents whose pages differ in their words and in the
\* left edges of their blocks
SpecColumns == ColumnsInit /\ [][Next]_vars

ChiefInit == ParseInit({"chief"}) /\ MainIdle /\ TitleIdle

\* the same over the documents with the Chief Justice's Court phrase, whose
\* pages have their blocks in reading order
SpecChief == ChiefInit /\ [][Next]_vars

(***************************************************************************)
(* parse_pdf on the documents of serial markers: one page, the header      *)
(* "COURT NO. 2" and one block of one line, in either column               *)
(***************************************************************************)

SerialPage(text, left) ==
    PageOf(<<L(T_Court2), [left |-> left, text |-> text]>>, AdvocateHeader, FALSE)

\* lines 81 to 94: the document is open and its page is loaded
SerialInit ==
    /\ pdf_path = "serials"
    /\ page_count = 1
    /\ nlines = 2
    /\ pc = "parse"
    /\ pno = 1
    /\ \E text \in SerialTexts, left \in BOOLEAN :
       \E loaded \in {SerialPage(text, left)} :
       \E detected \in {detect_court_number(loaded)} :
          /\ detections = <<detected>>
          /\ court = ResolveCourt(detected, <<>>)
          /\ last_court = CarryCourt(ResolveCourt(detected, <<>>), <<>>)
          /\ page = <<[words |-> loaded.words, width |-> loaded.width,
                       height |-> loaded.height]>>
          /\ split_x = page_split_x(loaded)
          /\ blocks = SortBlocks(loaded.blocks)
    /\ is_left = FALSE
    /\ lines = <<>>
    /\ current = 0
    /\ capture_resp = FALSE
    /\ items = <<>>
    /\ events = <<>>
    /\ result = <<>>
    /\ MainIdle /\ TitleIdle

SerialNext == NextBlock \/ ProcessLine \/ Return \/ BuildIndex

SpecSerial == SerialInit /\ [][SerialNext]_vars

(***************************************************************************)
(* main, from the list parse_pdf returned                                  *)
(***************************************************************************)

\* the most entries of a returned list
MaxEntries == 3

\* the most references of a request
MaxQueries == 2

T_A == <<"A">>

T_B == <<"B">>

T_R == <<"R">>

T_10 == <<"1","0">>

T_5_0 == <<"5",".","0">>

Entry(c, serial, petitioner) ==
    [court |-> <<c>>, serial |-> serial, petitioner |-> <<petitioner>>,
     respondent |-> <<T_R>>, page |-> 1]

\* complete entries, as parse_pdf returns them
Entries ==
    {Entry(c, serial, T_A) : c \in {2, 10}, serial \in {T_5, T_10, T_5_0}}
        \cup {Entry(2, T_5, T_B)}

\* the references: stripped and not empty (lines 160 and 162)
Queries == {<<"2","/","5">>, <<"9","/","9">>}

\* parse_pdf has returned the list its
ParseReturned(its) ==
    /\ pdf_path = ""
    /\ page_count = 0
    /\ nlines = 0
    /\ detections = <<>>
    /\ pc = "parsed"
    /\ pno = 0
    /\ last_court = <<>>
    /\ court = <<>>
    /\ page = <<>>
    /\ split_x = 0
    /\ blocks = <<>>
    /\ is_left = FALSE
    /\ lines = <<>>
    /\ current = 0
    /\ capture_resp = FALSE
    /\ items = its
    /\ events = <<>>
    /\ result = <<its>>

IndexInit ==
    /\ \E its \in StringsUpTo(Entries, MaxEntries) : ParseReturned(its)
    /\ dump_all \in BOOLEAN
    /\ req \in IF dump_all THEN {<<>>} ELSE StringsUpTo(Queries, MaxQueries)
    /\ idx = <<>>
    /\ out = <<>>
    /\ TitleIdle

IndexNext == BuildIndex \/ DumpAll \/ Usage \/ AnswerQuery

SpecIndex == IndexInit /\ [][IndexNext]_vars

(***************************************************************************)
(* The normaliser applied twice                                            *)
(***************************************************************************)

\* the longest name normalised
MaxTitleLen == 4

TitleChars == {"i", "A", "n", ".", "-", " ", "1"}

ParseIdle ==
    /\ pdf_path = ""
    /\ page_count = 0
    /\ nlines = 0
    /\ detections = <<>>
    /\ pc = "idle"
    /\ pno = 0
    /\ last_court = <<>>
    /\ court = <<>>
    /\ page = <<>>
    /\ split_x = 0
    /\ blocks = <<>>
    /\ is_left = FALSE
    /\ lines = <<>>
    /\ current = 0
    /\ capture_resp = FALSE
    /\ items = <<>>
    /\ events = <<>>
    /\ result = <<>>

TitleInit ==
    /\ title_in \in StringsUpTo(TitleChars, MaxTitleLen)
    /\ title_once = <<>>
    /\ title_twice = <<>>
    /\ title_pass = 0
    /\ ParseIdle /\ MainIdle

NormaliseOnce ==
    /\ title_pass = 0
    /\ title_once' = smart_title(title_in)
    /\ title_pass' = 1
    /\ UNCHANGED <<title_in, title_twice, parse_vars, main_vars>>

NormaliseAgain ==
    /\ title_pass = 1
    /\ title_twice' = smart_title(title_once)
    /\ title_pass' = 2
    /\ UNCHANGED <<title_in, title_once, parse_vars, main_vars>>

TitleNext == NormaliseOnce \/ NormaliseAgain

SpecTitle == TitleInit /\ [][TitleNext]_vars

(***************************************************************************)
(* Properties                                                              *)
(***************************************************************************)

\* an entry with a court that is present and not 0, and a petitioner and a
\* respondent that are present and not the empty string
NonEmptyEntry(e) ==
    /\ e.court # <<>> /\ e.court[1] # 0
    /\ e.petitioner # <<>> /\ e.petitioner[1] # <<>>
    /\ e.respondent # <<>> /\ e.respondent[1] # <<>>

\* C1: every entry parse_pdf returns has a non-empty court, a non-empty
\* petitioner and a non-empty respondent
C1_ReturnedEntriesComplete ==
    result # <<>> => \A i \in 1..Len(result[1]) : NonEmptyEntry(result[1][i])

\* a document of free pages is parsed to a list that is not empty
C1_Witness == pdf_path = "parties" /\ pc = "parsed" /\ result[1] # <<>>

EndToEnd(path) ==
    pdf_path = path /\ pc = "indexed" =>
        /\ \E i \in 1..Len(idx) :
              /\ idx[i].key = <<"2","/","5">>
              /\ idx[i].it.petitioner = <<T_PetitionerOne>>
              /\ idx[i].it.respondent = <<T_RespondentOne>>
              /\ idx[i].it.page = 1
        /\ \E i \in 1..Len(idx) :
              /\ idx[i].key = <<"2","/","6">>
              /\ idx[i].it.court = <<2>>
              /\ idx[i].it.petitioner = <<T_PetitionerTwo>>
              /\ idx[i].it.respondent = <<T_RespondentTwo>>
              /\ idx[i].it.page = 2

\* C2 as amended: for the two-page document of the claim with each serial
\* marker on a line of its own, before the line of the petitioner,
\* parse_pdf and build_index give the keys "2/5" and "2/6", the entry of
\* page 2 with the court 2 of page 1
C2_OwnLine == EndToEnd("e2e_own_line")

\* C2 as stated: the same for the document whose serial markers share the
\* line of the petitioner ("5  Petitioner One")
C2_SameLine == EndToEnd("e2e_same_line")

C2_Witness ==
    /\ pdf_path = "e2e_own_line" /\ pc = "indexed"
    /\ Len(idx) = 2 /\ idx[2].it.page = 2 /\ idx[2].it.court = <<2>>

\* the detection of the nearest page up to p that has one, <<>> when none has
NearestDetection(dets, p) ==
    LET qs == {q \in 1..p : dets[q] # <<>>}
    IN  IF qs = {} THEN <<>> ELSE dets[Max(qs)]

\* C3: the court of every entry is the court detected on its page, or else
\* on the nearest earlier page with a detection, and the court carried
\* forward is the latest detection
C3_CourtOfPage ==
    pc = "parse" =>
        /\ \A i \in 1..Len(items) :
              items[i].court = NearestDetection(detections, items[i].page)
        /\ last_court = NearestDetection(detections, Len(detections))

\* the step that processes a line "12 No. something"
Reads12No ==
    /\ pc = "parse" /\ lines # <<>> /\ Head(lines) = T_12No
    /\ lines' = Tail(lines)

\* C4 as amended: in the right column the line "12 No. something" leaves
\* the current entry, the flag and the list unchanged; in the left column
\* the serial pattern is tried first, and the line starts the entry 12 and
\* clears the flag
C4_SerialFirst ==
    [][Reads12No =>
         IF is_left
         THEN /\ items' = Append(items, NewEntry(court, <<"1","2">>, pno))
              /\ current' = Len(items) + 1
              /\ capture_resp' = FALSE
         ELSE UNCHANGED <<items, current, capture_resp>>]_vars

\* C4 as stated: in whichever column, the line "12 No. something" leaves the
\* current entry, the flag and the list unchanged
C4_Boilerplate == [][Reads12No => UNCHANGED <<items, current, capture_resp>>]_vars

\* the line has started the entry 12 in the left column, and is read again
\* in the right column with that entry open and the flag set
C4_Witness ==
    /\ pc = "parse" /\ lines # <<>> /\ Head(lines) = T_12No /\ ~is_left
    /\ current # 0 /\ items[current].serial = <<"1","2">> /\ capture_resp

\* C5: when a page fails to load, parse_pdf returns the complete entries
\* of the pages before it
C5_PartialResults ==
    pc = "raised" => result = <<SelectSeq(items, NonEmptyEntry)>>

\* C6: parse_pdf returns exactly the complete entries among the entries
\* started, each once and in the order of their serial markers, pages
\* ascending; while the document is parsed no entry is dropped or moved
C6_EncounterOrder ==
    /\ [](pc \in {"parsed", "indexed"} =>
             /\ result = <<SelectSeq(items, NonEmptyEntry)>>
             /\ \A i, j \in 1..Len(items) : i < j => items[i].page <= items[j].page)
    /\ [][pc = "parse" =>
             /\ Len(items') >= Len(items)
             /\ \A i \in 1..Len(items) :
                   /\ items'[i].serial = items[i].serial
                   /\ items'[i].page = items[i].page
                   /\ items'[i].court = items[i].court]_vars

\* a list is returned that keeps a complete entry and leaves out an
\* abandoned one that was started before it
C6_Witness ==
    /\ pc = "parsed" /\ Len(items) = 2 /\ Len(result[1]) = 1
    /\ result[1][1] = items[2]

\* the states after build_index
Indexed == pc \in {"indexed", "lookup", "done", "exit1"}

\* C7: the keys of the index are exactly the keys of the entries, without
\* repetition, and each key maps to the earliest entry that has it
C7_FirstWins ==
    Indexed =>
        /\ {idx[i].key : i \in 1..Len(idx)} = {Key(result[1][j]) : j \in 1..Len(result[1])}
        /\ \A i, j \in 1..Len(idx) : idx[i].key = idx[j].key => i = j
        /\ \A i \in 1..Len(idx) :
              \E j \in 1..Len(result[1]) :
                  /\ idx[i].it = result[1][j]
                  /\ Key(result[1][j]) = idx[i].key
                  /\ \A h \in 1..(j - 1) : Key(result[1][h]) # idx[i].key

\* two entries with one key and different petitioners are indexed
C7_Witness ==
    /\ pc = "indexed"
    /\ \E h, j \in 1..Len(result[1]) :
          /\ h < j /\ Key(result[1][h]) = Key(result[1][j])
          /\ result[1][h] # result[1][j]

\* C8: the lookup loop gives one line for each reference, in the order of
\* the references: the formatted entry when the reference is a key of the
\* index, and "<ref> - NOT FOUND" when it is not; after a miss the later
\* references are still answered
C8_OneAnswerPerQuery ==
    ~dump_all /\ pc \in {"lookup", "done"} =>
        /\ Len(out) <= Len(req)
        /\ pc = "done" => Len(out) = Len(req)
        /\ \A i \in 1..Len(out) :
              IF \E e \in 1..Len(idx) : idx[e].key = req[i]
              THEN \E e \in 1..Len(idx) :
                      idx[e].key = req[i] /\ out[i] = format_line(idx[e].it)
              ELSE out[i] = req[i] \o T_NotFound

\* a miss is answered, and after it a hit
C8_Witness ==
    /\ ~dump_all /\ pc = "done" /\ Len(req) = 2
    /\ out[1] = req[1] \o T_NotFound
    /\ out[2] # req[2] \o T_NotFound

\* C9: smart_title is idempotent: normalising a normalised name changes nothing
C9_Idempotent == title_pass = 2 => title_twice = title_once

\* the order of (court as integer, serial as decimal value) on entries
EntryLE(a, b) ==
    \/ a.court[1] < b.court[1]
    \/ a.court[1] = b.court[1] /\ ~FloatLess(Float(b.serial), Float(a.serial))

\* C10: in dump-all mode the output has exactly one formatted line for each
\* key of the index, in ascending order of (court, serial)
C10_DumpSorted ==
    dump_all /\ pc = "done" =>
        /\ Len(out) = Len(idx)
        /\ \E p \in Permutations(1..Len(idx)) :
              /\ \A i \in 1..Len(idx) : out[i] = format_line(idx[p[i]].it)
              /\ \A i, j \in 1..Len(idx) :
                    i < j => EntryLE(idx[p[i]].it, idx[p[j]].it)

\* an index is dumped in another order than it was filled
C10_Witness ==
    /\ dump_all /\ pc = "done" /\ Len(idx) >= 2
    /\ out[1] # format_line(idx[1].it)

\* the prefixes of s that are 1 to 3 digits, or 1 to 3 digits, a period and
\* digits, and that end at a word boundary of s
SerialTokens(s) ==
    {t \in {SubSeq(s, 1, n) : n \in 1..Len(s)} :
        LET d == RunLen(t, DigitSet)
        IN  /\ d \in 1..3
            /\ \/ Len(t) = d
               \/ /\ Len(t) > d + 1
                  /\ t[d + 1] = "."
                  /\ \A k \in (d + 2)..Len(t) : t[k] \in DigitSet
            /\ (Len(t) = Len(s) \/ s[Len(t) + 1] \notin WordChars)}

\* the longest of the tokens
LongestToken(ts) == CHOOSE t \in ts : \A u \in ts : Len(u) <= Len(t)

\* the step that processes the line of a document of serial markers
ReadsSerialLine ==
    /\ pdf_path = "serials" /\ pc = "parse" /\ lines # <<>> /\ blocks = <<>>
    /\ lines' = Tail(lines)

\* C11: a left-column line starts an entry exactly when, after its leading
\* whitespace, it begins with 1 to 3 digits, optionally followed by a period
\* and digits, ending at a word boundary; the serial of the entry is that
\* token, the longest one ("11.1 a" gives "11.1"); a line that begins with 4
\* or more digits starts no entry
C11_SerialMarker ==
    [][ReadsSerialLine /\ is_left =>
         LET s  == Strip(Head(lines))
             ts == SerialTokens(s)
         IN  /\ IF ts = {} THEN items' = items
                ELSE items' = Append(items, NewEntry(court, LongestToken(ts), pno))
             /\ RunLen(s, DigitSet) >= 4 => items' = items]_vars

\* a line with a sub-item and text after it has started the entry 1.1, and
\* a line of four digits has started none
C11_Witness ==
    /\ pdf_path = "serials" /\ pc = "parse" /\ lines = <<>> /\ blocks = <<>>
    /\ Len(items) = 1 /\ items[1].serial = <<"1",".","1">> /\ items[1].court = <<2>>

\* the step that processes a line of a block
ReadsLine == pc = "parse" /\ lines # <<>> /\ lines' = Tail(lines)

\* C12: a left-column serial marker processed on page p appends exactly one
\* entry, with the court of the page, the captured serial, page p counted
\* from 1 and no petitioner and no respondent, makes it the current entry
\* and clears the flag; whatever the step, the only entry it can change is
\* the last one started, and only while its page is the current page
C12_SerialStartsEntry ==
    [][pc = "parse" =>
         /\ ReadsLine /\ is_left /\ SerialOf[Strip(Head(lines))] # <<>> =>
                /\ items' = Append(items,
                                   [court |-> court,
                                    serial |-> SerialOf[Strip(Head(lines))][1],
                                    petitioner |-> <<>>, respondent |-> <<>>,
                                    page |-> pno])
                /\ current' = Len(items) + 1
                /\ capture_resp' = FALSE
         /\ \A i \in 1..Len(items) :
                items'[i] # items[i] => i = Len(items) /\ items[i].page = pno]_vars

\* a second entry was started on the page while the first was waiting for
\* its respondent: the flag is clear, the first entry is as it was left and
\* the second one has got its petitioner
C12_Witness ==
    /\ pc = "parse" /\ Len(items) = 2 /\ current = 2 /\ ~capture_resp
    /\ items[1].page = pno /\ items[2].page = pno
    /\ events[1] = <<"versus">>
    /\ items[1].respondent = <<>>
    /\ items[2].petitioner # <<>>

\* a stripped line that is not blank and is neither a serial marker of the
\* left column, nor boilerplate, nor a versus marker
ContentLine(line, left) ==
    /\ line # <<>>
    /\ ~(left /\ SerialOf[line] # <<>>)
    /\ ~MetaOf[line]
    /\ ~VersusOf[line]

\* the step gives entry i a petitioner, a respondent
SetsPetitioner(i) == items[i].petitioner = <<>> /\ items'[i].petitioner # <<>>

SetsRespondent(i) == items[i].respondent = <<>> /\ items'[i].respondent # <<>>

\* C13: a name that is set never changes; a left-column content line read
\* while an entry is open sets its petitioner when the petitioner is unset
\* and the flag is clear, and its respondent when the flag is set and the
\* respondent is unset, to the normalised line; no other step sets a name
C13_SlotsWrittenOnce ==
    [][pc = "parse" =>
         /\ \A i \in 1..Len(items) :
                /\ items[i].petitioner # <<>> =>
                       items'[i].petitioner = items[i].petitioner
                /\ items[i].respondent # <<>> =>
                       items'[i].respondent = items[i].respondent
         /\ \A i \in 1..Len(items) :
                LET line  == Strip(Head(lines))
                    reads == /\ ReadsLine /\ is_left /\ i = current
                             /\ ContentLine(line, is_left)
                IN  /\ SetsPetitioner(i) <=>
                           reads /\ items[i].petitioner = <<>> /\ ~capture_resp
                    /\ SetsPetitioner(i) =>
                           items'[i].petitioner = <<TitleOf[line]>>
                    /\ SetsRespondent(i) <=>
                           reads /\ items[i].respondent = <<>> /\ capture_resp
                    /\ SetsRespondent(i) =>
                           items'[i].respondent = <<TitleOf[line]>>]_vars

\* the petitioner was set to the empty name by the line "," and kept when
\* the line "Petitioner One" came; the respondent was set by the first line
\* after the versus marker and kept when "Respondent Two" came
C13_Witness ==
    /\ pdf_path = "first_lines" /\ pc = "parse" /\ lines = <<>> /\ blocks = <<>>
    /\ Len(items) = 1
    /\ items[1].petitioner = <<(<<>>)>>
    /\ items[1].respondent = <<T_RespondentOne>>

\* a stripped line that is a versus marker: not blank, not a serial marker
\* of the left column, not boilerplate, and matched by VERSUS_RE
VersusMarker(line, left) ==
    /\ line # <<>>
    /\ ~(left /\ SerialOf[line] # <<>>)
    /\ ~MetaOf[line]
    /\ VersusOf[line]

\* C14: while a document is parsed, a versus marker (either column, an entry
\* open or not) sets the flag; the start of a page, a left-column serial
\* marker and the capture of a respondent clear it; nothing else changes
\* it.  A respondent is captured only while the flag is set, and a versus
\* marker read while the flag is set changes nothing.
C14_FlagFollowsVersus ==
    [][pc = "parse" /\ pc' = "parse" =>
         LET line     == Strip(Head(lines))
             versus   == ReadsLine /\ VersusMarker(line, is_left)
             serial   == ReadsLine /\ is_left /\ SerialOf[line] # <<>>
             captured == \E i \in 1..Len(items) : SetsRespondent(i)
             newpage  == pno' # pno
         IN  /\ capture_resp' = IF versus THEN TRUE
                                ELSE IF serial \/ captured \/ newpage THEN FALSE
                                ELSE capture_resp
             /\ captured => capture_resp
             /\ versus /\ capture_resp =>
                    UNCHANGED <<items, current, capture_resp>>]_vars

\* on page 1 a versus marker set the flag for entry 1 and the capture of the
\* respondent cleared it; on page 2 a versus marker has set it again, with
\* no entry open
C14_Witness ==
    /\ pc = "parse" /\ pno = 2 /\ current = 0 /\ capture_resp
    /\ Len(items) = 1 /\ events[1] = <<"versus", "respondent">>

\* C15: a line changes the list of entries, the current entry or the flag
\* only if it is a serial marker of the left column, a versus marker, or a
\* content line of the left column read while an entry is open; a blank
\* line, a boilerplate line that is not a serial marker of the left column,
\* and a right-column line that is not a versus marker (one that looks like
\* a serial marker too) change none of them
C15_OtherLinesChangeNothing ==
    [][ReadsLine =>
         LET line == Strip(Head(lines))
         IN  /\ ~UNCHANGED <<items, current, capture_resp>> =>
                    \/ is_left /\ SerialOf[line] # <<>>
                    \/ VersusMarker(line, is_left)
                    \/ is_left /\ current # 0 /\ ContentLine(line, is_left)
             /\ \/ line = <<>>
                \/ MetaOf[line] /\ ~(is_left /\ SerialOf[line] # <<>>)
                \/ ~is_left /\ ~VersusOf[line]
                => UNCHANGED <<items, current, capture_resp>>]_vars

\* with entry 5 waiting for its respondent, the right-column lines
\* "6 Petitioner Two", blank, "Ram" and "12 No. something" and the
\* left-column lines "NOTE" and blank were read; the respondent is the next
\* content line of the left column
C15_Witness ==
    /\ pdf_path = "other_lines" /\ pc = "parse" /\ lines = <<>> /\ blocks = <<>>
    /\ Len(items) = 1 /\ items[1].serial = T_5
    /\ items[1].petitioner = <<T_PetitionerOne>>
    /\ items[1].respondent = <<T_RespondentOne>>

\* no page up to page p has a detected court number
NoCourtYet(dets, p) == \A q \in 1..p : dets[q] = <<>>

\* C16: an entry started on a page up to which no court number was detected
\* has no court; the court of an entry never changes, whatever is detected
\* on later pages; and no entry without a court is in the list parse_pdf
\* returns, even with both names captured
C16_NoBackfill ==
    /\ [](pc = "parse" =>
             \A i \in 1..Len(items) :
                 NoCourtYet(detections, items[i].page) => items[i].court = <<>>)
    /\ [][\A i \in 1..Len(items) : items'[i].court = items[i].court]_vars
    /\ [](result # <<>> =>
             \A i \in 1..Len(items) :
                 items[i].court = <<>> =>
                     ~\E j \in 1..Len(result[1]) :
                         /\ result[1][j].serial = items[i].serial
                         /\ result[1][j].page = items[i].page)

\* entry 5 of page 1 got both names and no court, page 2 declared court 2,
\* and the list returned holds entry 6 alone
C16_Witness ==
    /\ pdf_path = "late_court" /\ pc = "parsed" /\ Len(items) = 2
    /\ items[1].court = <<>>
    /\ items[1].petitioner = <<T_PetitionerOne>>
    /\ items[1].respondent = <<T_RespondentOne>>
    /\ items[2].court = <<2>>
    /\ result[1] = <<items[2]>>

\* C17: the step that starts a page leaves no entry open, clears the flag
\* and changes no entry; no step changes an entry of a page before the
\* current one; and a name is captured only from a line of the page
\* recorded in the entry
C17_PerPage ==
    [][pc = "parse" =>
         /\ pno' # pno =>
                current' = 0 /\ capture_resp' = FALSE /\ items' = items
         /\ \A i \in 1..Len(items) :
                /\ items[i].page < pno' => items'[i] = items[i]
                /\ SetsPetitioner(i) \/ SetsRespondent(i) =>
                       ReadsLine /\ items[i].page = pno]_vars

\* the entry of page 1 has a petitioner and no respondent; page 2 has been
\* read to its end, a versus marker and another block and no serial marker,
\* and the entry is as page 1 left it
C17_Witness ==
    /\ pdf_path = "parties" /\ pc = "parse" /\ pno = 2 /\ nlines = 4
    /\ lines = <<>> /\ blocks = <<>>
    /\ Len(items) = 1 /\ items[1].page = 1 /\ events[1] = <<"petitioner">>
    /\ items[1].respondent = <<>>
    /\ current = 0 /\ capture_resp

\* the text of the page whose blocks are bs, in the order of bs
TextOf(bs) == JoinLines([k \in 1..Len(bs) |-> bs[k].text])

\* C18: when a page is loaded its court is 1 if the text of the page has
\* the Chief Justice's Court phrase, also when a "COURT NO n" occurs in it,
\* and otherwise the number of the first "COURT NO n" of the text if there
\* is one; every entry started on the page has that court, the entries
\* whose serial marker comes before the court marker too
C18_CourtOfWholePage ==
    /\ [][pc = "parse" /\ pno' # pno =>
             LET txt == TextOf(blocks')
             IN  IF CHIEF_JUSTICE_RE(txt) THEN court' = <<1>>
                 ELSE COURT_NUM_RE(txt) # <<>> =>
                          court' = <<ParseInt(COURT_NUM_RE(txt)[1])>>]_vars
    /\ [](pc = "parse" =>
             \A i \in 1..Len(items) : items[i].page = pno => items[i].court = court)

\* in the history of an entry the petitioner comes before a versus marker
\* and the respondent after that marker
NamesInOrder(ev) ==
    \E p, v, r \in 1..Len(ev) :
        /\ p < v /\ v < r
        /\ ev[p] = "petitioner" /\ ev[v] = "versus" /\ ev[r] = "respondent"

\* C19: for every entry parse_pdf returns, the petitioner was captured
\* after the serial marker and before the versus marker that set the flag
\* for the respondent, and the respondent after that marker
C19_PetitionerVersusRespondent ==
    result # <<>> =>
        \A i \in 1..Len(events) : Complete(items[i]) => NamesInOrder(events[i])

\* the words of ws that start with "advocate", whatever the case, and have
\* their top in the upper 35% of the height h
AdvocateWords(ws, h) ==
    {k \in 1..Len(ws) :
        /\ Len(ws[k].word) >= 8
        /\ Lower(SubSeq(ws[k].word, 1, 8)) = <<"a","d","v","o","c","a","t","e">>
        /\ 100 * ws[k].y0 < 35 * h}

\* the words of ws that have "petitioner/respondent" in them, whatever the
\* case, and their top in the upper 35% of the height h
PartyWords(ws, h) ==
    {k \in 1..Len(ws) :
        /\ \E i \in 1..Len(ws[k].word) :
              HasAt(Lower(ws[k].word), i, Lower(T_PetResp))
        /\ 100 * ws[k].y0 < 35 * h}

\* C20: every page gets a split coordinate: the least x-start of the
\* "advocate" words of the upper band if there is one, else the greatest
\* x-end of the "petitioner/respondent" words of the band plus 10 if there
\* is one, else 70% of the width of the page; and the lines of a block are
\* tagged left column exactly when the x-start of the block is strictly
\* less than it.  (Coordinates count hundredths, split_x ten-thousandths.)
C20_SplitAndColumn ==
    [][pc = "parse" =>
         /\ pno' # pno =>
                LET ws  == page'[1].words
                    adv == AdvocateWords(ws, page'[1].height)
                    pr  == PartyWords(ws, page'[1].height)
                IN  /\ adv # {} =>
                           /\ \E k \in adv : split_x' = 100 * ws[k].x0
                           /\ \A k \in adv : split_x' <= 100 * ws[k].x0
                    /\ adv = {} /\ pr # {} =>
                           /\ \E k \in pr : split_x' = 100 * (ws[k].x1 + 1000)
                           /\ \A k \in pr : split_x' >= 100 * (ws[k].x1 + 1000)
                    /\ adv = {} /\ pr = {} => split_x' = 70 * page'[1].width
         /\ lines = <<>> /\ blocks # <<>> /\ blocks' = Tail(blocks) =>
                (is_left' <=> 100 * Head(blocks).x0 < split_x)]_vars

\* the page has "Advocate" below the band only and "Petitioner/Respondent"
\* ending at x 200 in the band: the split is 210, and the block that starts
\* at x 210 has just been tagged right column
C20_Witness ==
    /\ pdf_path = "columns" /\ pc = "parse"
    /\ page # <<>> /\ page[1].words = ColumnHeaders[5]
    /\ split_x = 2100000
    /\ lines = <<T_5>> /\ ~is_left /\ blocks = <<>>

=============================================================================
